---------------------------- MODULE Spec2Model ----------------------------
(***************************************************************************)
(* Adjacency-list graph of rust/graph/src/bin/graph_adjlist.rs.            *)
(*                                                                         *)
(* A Graph<T> holds two u32 counters (vertnums, edgenums) and a            *)
(* HashMap<T, Vertex<T>>; a Vertex<T> holds its key and a Vec<(T, i32)> of *)
(* (neighbor, weight) entries.  The model keeps the map as a function from *)
(* the set of present keys to vertex records and a Vec as a sequence.      *)
(*                                                                         *)
(* u32 arithmetic: `-=` panics on underflow when the build has overflow    *)
(* checks (cargo's dev profile) and wraps modulo 2^32 otherwise (release). *)
(* Both builds are modelled (overflow_checks).  A wrapped counter is kept  *)
(* as the integer congruent to it modulo 2^32 that the subtraction yields  *)
(* (2^32 - 1 is carried as -1): TLC's integers end at 2^31 - 1, and the    *)
(* code only ever compares a counter for equality.                         *)
(*                                                                         *)
(* A panic unwinds out of main: the process ends, so no operation follows  *)
(* a panic.  The state a panic leaves is the state at the panicking line.  *)
(***************************************************************************)
EXTENDS Integers, Sequences, FiniteSets

\* Bounds of the model.
MaxKey == 1
MaxWeight == 1
MaxVertnums == 3
MaxEdgenums == 2

\* T = i32 in main; the keys and weights the driver draws from.
Keys == 0..MaxKey
Weights == 0..MaxWeight

VARIABLES vertnums, edgenums, vertics, overflow_checks, panic, last

vars == <<vertnums, edgenums, vertics, overflow_checks, panic, last>>

-----------------------------------------------------------------------------
\* Option<_>.
None == [some |-> FALSE]
Some(x) == [some |-> TRUE, val |-> x]

-----------------------------------------------------------------------------
\* struct Vertex<T>

Vertex_new(key) == [key |-> key, neighbors |-> <<>>]

adjacent_key(v, key) ==
    \E i \in 1..Len(v.neighbors) : v.neighbors[i][1] = key

add_neighbor(v, nbr, wt) ==
    [v EXCEPT !.neighbors = Append(@, <<nbr, wt>>)]

get_neighbors(v) ==
    [i \in 1..Len(v.neighbors) |-> v.neighbors[i][1]]

\* The loop of get_nbr_weight from entry i on: the weight of the first entry
\* whose neighbor equals key, and the literal 0 when the loop ends.
RECURSIVE nbr_weight_from(_, _, _)
nbr_weight_from(nbrs, key, i) ==
    IF i > Len(nbrs) THEN 0
    ELSE IF nbrs[i][1] = key THEN nbrs[i][2]
    ELSE nbr_weight_from(nbrs, key, i + 1)

get_nbr_weight(v, key) == nbr_weight_from(v.neighbors, key, 1)

-----------------------------------------------------------------------------
\* struct Graph<T>, as a value [vertnums, edgenums, vertics, panic].

Graph_new == [vertnums |-> 0, edgenums |-> 0, vertics |-> <<>>, panic |-> "none"]

is_empty(g) == g.vertnums = 0
vertex_num(g) == g.vertnums
edge_num(g) == g.edgenums

contains(g, key) == \E nbr \in DOMAIN g.vertics : nbr = key

get_vertex(g, key) ==
    IF key \in DOMAIN g.vertics THEN Some(g.vertics[key]) ELSE None

\* HashMap::insert: the map with key bound to v.
map_insert(m, key, v) ==
    [k \in DOMAIN m \cup {key} |-> IF k = key THEN v ELSE m[k]]

\* A remove that looks the key up and leaves it in the map.
map_remove_kept(m, key) == m

\* HashMap::remove: the map without key.
map_remove(m, key) == [k \in DOMAIN m \ {key} |-> m[k]]

\* add_vertex: [g |-> the graph after the call, ret |-> the returned Option].
add_vertex(g, key) ==
    [g   |-> [g EXCEPT !.vertnums = @ + 1,
                       !.vertics = map_insert(@, key, Vertex_new(key))],
     ret |-> get_vertex(g, key)]

\* vertex_keys: the Vecs the call can return.  HashMap iteration order is
\* unspecified, so every ordering of the key set is a possible result.
vertex_keys(g) ==
    LET S == DOMAIN g.vertics
        n == Cardinality(S)
    IN {s \in [1..n -> S] : \A i, j \in 1..n : s[i] = s[j] => i = j}

\* `a -= b` on a u32: the value left and whether the statement panics.
sub_assign(a, b, checks) ==
    IF a >= b THEN [val |-> a - b, panics |-> FALSE]
    ELSE IF checks THEN [val |-> a, panics |-> TRUE]
    ELSE [val |-> a - b, panics |-> FALSE]

\* A retain whose closure keeps every entry.
retain_all(nbrs, key) == nbrs

\* Vec::retain(|(k, _)| k != key)
retain_ne(nbrs, key) == SelectSeq(nbrs, LAMBDA e : e[1] # key)

\* The for loop of remove_vertex over the snapshot keys, from position i on.
RECURSIVE remove_scan(_, _, _, _, _)
remove_scan(g, key, keys, i, checks) ==
    IF i > Len(keys) THEN g
    ELSE LET v == keys[i] IN
         IF v \in DOMAIN g.vertics /\ adjacent_key(g.vertics[v], key)
         THEN LET g1 == [g EXCEPT !.vertics[v].neighbors = retain_ne(@, key)]
                  s  == sub_assign(g1.edgenums, 1, checks)
              IN IF s.panics THEN [g1 EXCEPT !.panic = "sub_overflow"]
                 ELSE remove_scan([g1 EXCEPT !.edgenums = s.val],
                                  key, keys, i + 1, checks)
         ELSE remove_scan(g, key, keys, i + 1, checks)

\* remove_vertex with the snapshot vertex_keys() returning keys:
\* [g |-> the graph after the call (g.panic says whether and why it panicked),
\*  ret |-> the returned Option].
remove_vertex_in(g, key, keys, checks) ==
    LET old_vertex == get_vertex(g, key)
        g1 == [g EXCEPT !.vertics = map_remove(@, key)]
        s1 == sub_assign(g1.vertnums, 1, checks)
    IN IF s1.panics THEN [g |-> [g1 EXCEPT !.panic = "sub_overflow"], ret |-> None]
       ELSE LET g2 == [g1 EXCEPT !.vertnums = s1.val] IN
            IF ~old_vertex.some
            THEN [g |-> [g2 EXCEPT !.panic = "unwrap_none"], ret |-> None]
            ELSE LET s2 == sub_assign(g2.edgenums,
                                      Len(get_neighbors(old_vertex.val)), checks)
                 IN IF s2.panics
                    THEN [g |-> [g2 EXCEPT !.panic = "sub_overflow"], ret |-> None]
                    ELSE [g |-> remove_scan([g2 EXCEPT !.edgenums = s2.val],
                                            key, keys, 1, checks),
                          ret |-> old_vertex]

\* remove_vertex: the outcomes of the call, one per order of iteration.
remove_vertex(g, key, checks) ==
    {remove_vertex_in(g, key, keys, checks) :
        keys \in vertex_keys([g EXCEPT !.vertics = map_remove(@, key)])}

\* An add_edge that calls add_vertex for both endpoints without asking
\* contains first.
add_edge_unchecked(g, from, to, wt) ==
    LET g1 == add_vertex(g, from).g
        g2 == add_vertex(g1, to).g
    IN [g2 EXCEPT !.edgenums = @ + 1,
                  !.vertics[from] = add_neighbor(@, to, wt)]

\* An add_edge that leaves edgenums alone.
add_edge_uncounted(g, from, to, wt) ==
    LET g1 == IF ~contains(g, from) THEN add_vertex(g, from).g ELSE g
        g2 == IF ~contains(g1, to) THEN add_vertex(g1, to).g ELSE g1
    IN [g2 EXCEPT !.vertics[from] = add_neighbor(@, to, wt)]

\* add_edge: the graph after the call.
add_edge(g, from, to, wt) ==
    LET g1 == IF ~contains(g, from) THEN add_vertex(g, from).g ELSE g
        g2 == IF ~contains(g1, to) THEN add_vertex(g1, to).g ELSE g1
    IN [g2 EXCEPT !.edgenums = @ + 1,
                  !.vertics[from] = add_neighbor(@, to, wt)]

adjacent(g, from, to) == adjacent_key(g.vertics[from], to)

-----------------------------------------------------------------------------
\* The graph held by the state.
G == [vertnums |-> vertnums, edgenums |-> edgenums, vertics |-> vertics,
      panic |-> panic]

Store(g) ==
    /\ vertnums' = g.vertnums
    /\ edgenums' = g.edgenums
    /\ vertics' = g.vertics
    /\ panic' = g.panic

\* The call main made last: the operation, its arguments (key is from for
\* add_edge; to and wt are key and 0 for the calls that take one argument) and
\* the Option it returned (None for add_edge, which returns (), and for a call
\* that panicked).
Call(op, key, to, wt, ret) ==
    [op |-> op, key |-> key, to |-> to, wt |-> wt, ret |-> ret]

Init ==
    /\ vertnums = Graph_new.vertnums
    /\ edgenums = Graph_new.edgenums
    /\ vertics = Graph_new.vertics
    /\ panic = Graph_new.panic
    /\ overflow_checks \in BOOLEAN
    /\ last = Call("new", 0, 0, 0, None)

AddVertex(key) ==
    /\ panic = "none"
    /\ vertnums < MaxVertnums
    /\ Store(add_vertex(G, key).g)
    /\ last' = Call("add_vertex", key, key, 0, add_vertex(G, key).ret)
    /\ UNCHANGED overflow_checks

AddEdge(from, to, wt) ==
    /\ panic = "none"
    /\ edgenums < MaxEdgenums
    /\ add_edge(G, from, to, wt).vertnums <= MaxVertnums
    /\ Store(add_edge(G, from, to, wt))
    /\ last' = Call("add_edge", from, to, wt, None)
    /\ UNCHANGED overflow_checks

RemoveVertex(key) ==
    /\ panic = "none"
    /\ \E out \in remove_vertex(G, key, overflow_checks) :
          /\ Store(out.g)
          /\ last' = Call("remove_vertex", key, key, 0, out.ret)
    /\ UNCHANGED overflow_checks

Next ==
    \/ \E key \in Keys : AddVertex(key)
    \/ \E from \in Keys, to \in Keys, wt \in Weights : AddEdge(from, to, wt)
    \/ \E key \in Keys : RemoveVertex(key)

Spec == Init /\ [][Next]_vars

-----------------------------------------------------------------------------
\* Helpers of the properties.

\* The number of (neighbor, weight) entries held by the vertices in S of map m.
RECURSIVE EntriesIn(_, _)
EntriesIn(m, S) ==
    IF S = {} THEN 0
    ELSE LET k == CHOOSE x \in S : TRUE
         IN Len(m[k].neighbors) + EntriesIn(m, S \ {k})

TotalEntries(m) == EntriesIn(m, DOMAIN m)

\* The number of entries of nbrs whose neighbor key is key.
EntriesTo(nbrs, key) == Cardinality({i \in 1..Len(nbrs) : nbrs[i][1] = key})

\* The number of entries with neighbor key held by the vertices in S of map m.
RECURSIVE IncomingIn(_, _, _)
IncomingIn(m, S, key) ==
    IF S = {} THEN 0
    ELSE LET k == CHOOSE x \in S : TRUE
         IN EntriesTo(m[k].neighbors, key) + IncomingIn(m, S \ {k}, key)

\* The entries incident to a present key: its own list (a self-loop once) and
\* every entry equal to key in the other vertices' lists.
IncidentEntries(m, key) ==
    Len(m[key].neighbors) + IncomingIn(m, DOMAIN m \ {key}, key)

\* The neighbor list of key in map m, empty when key is absent.
NeighborsOrEmpty(m, key) == IF key \in DOMAIN m THEN m[key].neighbors ELSE <<>>

\* A u32 counter that wrapped below zero (see the module's header).
Wrapped(c) == c < 0

-----------------------------------------------------------------------------
\* C1: after any sequence of calls that all returned, edgenums equals the sum
\* over the vertices of the map of the length of their neighbor lists.
EdgeCountIsEntrySum ==
    panic = "none" => edge_num(G) = TotalEntries(vertics)

\* C2: after any sequence of calls that all returned, vertnums equals the
\* number of keys of the map.
VertexCountIsKeyCount ==
    panic = "none" => vertex_num(G) = Cardinality(DOMAIN vertics)

\* C3: remove_vertex(k) on a present k lowers edgenums by the number of entries
\* incident to k: the length of k's own list plus one per entry equal to k in
\* every other vertex's list.
RemoveDropsIncidentEntries ==
    [][(last'.op = "remove_vertex" /\ contains(G, last'.key))
        => edgenums' = edgenums - IncidentEntries(vertics, last'.key)]_vars

\* C4: remove_vertex(k) on an absent k returns None without panicking and
\* leaves the map and both counters unchanged.
RemoveAbsentReturnsNone ==
    [][(last'.op = "remove_vertex" /\ ~contains(G, last'.key))
        => /\ panic' = "none"
           /\ last'.ret = None
           /\ vertics' = vertics
           /\ vertnums' = vertnums
           /\ edgenums' = edgenums]_vars

\* C5: add_vertex(k) on a present k leaves vertnums and k's record unchanged;
\* on an absent k it creates an empty record and raises vertnums by one.
AddVertexIdempotent ==
    [][last'.op = "add_vertex"
        => IF contains(G, last'.key)
           THEN /\ vertnums' = vertnums
                /\ vertics'[last'.key] = vertics[last'.key]
           ELSE /\ vertnums' = vertnums + 1
                /\ vertics'[last'.key] = Vertex_new(last'.key)]_vars

\* C6: add_edge(from, to, wt) creates an empty record for each absent endpoint
\* (vertnums raised once per created vertex, never for a present one), appends
\* (to, wt) at the end of from's list keeping every earlier entry, raises
\* edgenums by exactly one and leaves every other vertex's list as it was;
\* also when from = to and when the edge is already there.
AddEdgeContract ==
    [][last'.op = "add_edge"
        => LET from == last'.key
               to   == last'.to
               wt   == last'.wt
           IN /\ panic' = "none"
              /\ DOMAIN vertics' = DOMAIN vertics \cup {from, to}
              /\ vertnums' = vertnums + Cardinality({from, to} \ DOMAIN vertics)
              /\ edgenums' = edgenums + 1
              /\ vertics'[from].neighbors =
                     Append(NeighborsOrEmpty(vertics, from), <<to, wt>>)
              /\ \A k \in DOMAIN vertics' \ {from} :
                     vertics'[k].neighbors = NeighborsOrEmpty(vertics, k)]_vars

\* C6 witness: add_edge(k, k, wt) has just put a second self-loop on k behind
\* an earlier entry with the same target.
AddEdgeParallelSelfLoop ==
    /\ last.op = "add_edge"
    /\ last.key = last.to
    /\ last.key \in DOMAIN vertics
    /\ Len(vertics[last.key].neighbors) >= 2
    /\ vertics[last.key].neighbors[1][1] = last.to

\* C7: right after add_vertex(k), contains(k) is true; right after
\* remove_vertex(k) on a present k, contains(k) is false.
ContainsRoundTrip ==
    [][/\ last'.op = "add_vertex" => contains(G', last'.key)
       /\ (last'.op = "remove_vertex" /\ contains(G, last'.key))
            => ~contains(G', last'.key)]_vars

\* C7 witness: remove_vertex(k) has just returned the record of a present k
\* and another vertex is still in the map.
RemovedWhileOthersRemain ==
    /\ last.op = "remove_vertex"
    /\ last.ret.some
    /\ ~contains(G, last.key)
    /\ \E k \in Keys : contains(G, k)

RemovePresentNeverUnderflows ==
    [][(last'.op = "remove_vertex" /\ contains(G, last'.key))
        => /\ panic' = "none"
           /\ ~Wrapped(vertnums')
           /\ ~Wrapped(edgenums')]_vars

\* C9 witness: remove_vertex has just removed a vertex that had outgoing edges
\* and both counters came down to exactly zero.
RemovedDownToZero ==
    /\ last.op = "remove_vertex"
    /\ last.ret.some
    /\ Len(last.ret.val.neighbors) >= 1
    /\ vertnums = 0
    /\ edgenums = 0

\* C10: after any sequence of calls that all returned, every neighbor key held
\* in a neighbor list is a key of the map.
NoDanglingEdges ==
    panic = "none"
        => \A v \in DOMAIN vertics :
             \A i \in 1..Len(vertics[v].neighbors) :
                vertics[v].neighbors[i][1] \in DOMAIN vertics

\* C10 witness: remove_vertex has just removed a vertex that had outgoing edges
\* and a remaining vertex still holds entries.
RemovedAndEdgesRemain ==
    /\ last.op = "remove_vertex"
    /\ last.ret.some
    /\ Len(last.ret.val.neighbors) >= 1
    /\ \E v \in DOMAIN vertics : Len(vertics[v].neighbors) >= 1

=============================================================================
